---- MODULE Spec2Model ----
(***************************************************************************)
(* Model of scripts/generate_manifest.py: compute_sha256,                  *)
(* parse_cbor_header, derive_from_filename and generate_manifest, with the *)
(* header maps of scripts/generate_cbor_fixtures.py as decoded inputs.     *)
(*                                                                         *)
(* Python values are records [t, i, s, b, m]: t is the type tag, i the     *)
(* value of an int, s the characters of a str, b the bytes of a bytes      *)
(* object, m the entries of a dict (a function from its keys).  File       *)
(* contents are run-length encoded byte strings, so that a file larger     *)
(* than the 64 MiB ceiling is a value TLC can hold.                        *)
(***************************************************************************)
EXTENDS Integers, Sequences, FiniteSets, TLC

VARIABLES
    pc,              \* position in the running call
    file,            \* the snapshot file: name, existence, raw data, what cbor2.load yields
    era_opt,         \* generate_manifest's era_opt
    block_hash_opt,  \* generate_manifest's block_hash_opt
    block_height_opt,\* generate_manifest's block_height_opt
    chunk_size,      \* compute_sha256's chunk_size
    size_bytes,      \* generate_manifest's size_bytes
    header,          \* <<>> for None, else <<dict returned by parse_cbor_header>>
    fields,          \* <<>>, else <<[era, block_height, block_hash, governance_present]>>
    path,            \* "none", "header" or "fallback": the branch taken at line 127
    from_name,       \* what derive_from_filename returned, <<slot, hash>>
    handles,         \* number of open handles on the snapshot
    decode_opens,    \* number of times the file was opened for CBOR decoding
    fpos,            \* read position of the handle compute_sha256 holds
    hasher,          \* the bytes fed to hasher.update so far, in order
    digest,          \* <<>>, else <<value returned by compute_sha256>>
    manifest,        \* <<>>, else <<the manifest returned>>
    exc,             \* "" or the name of the exception the call raised
    envelope,        \* the validator's input: the decoded header and record sequence
    allow_list,      \* the validator's input: the eras the caller allows
    cursor,          \* RecordCursor: the number of records pulled so far
    utxo_seen,       \* the validator's counter of Utxo records
    gov_delta_sum,   \* the validator's sum of GovernanceActionsDelta payloads
    param_sets_seen, \* the validator's counter of ParameterSet records
    end_seen,        \* whether the validator has read an EndOfSnapshot
    report,          \* ValidationReport: the set of diagnostics
    verdict,         \* "idle", "start", "running", "ok" or "failed"
    wpc,             \* the position of weekly_status_markdown.main, "idle" before it
    utc_now,         \* the UTC clock, in seconds
    github,          \* what the project lookup, the label and the issue searches answer
    today,           \* main's today, a day ordinal
    last_start,      \* main's last_start, <<>> until computed
    last_end,        \* main's last_end, <<>> until computed
    try_projects,    \* main's try_projects
    done_items,      \* main's done_items
    inprog_items,    \* main's inprog_items
    md,              \* the Markdown main prints, <<>> until printed
    line,            \* the text given to screen_strings
    screened         \* <<>> or the string screen_strings returned

\* The state of generate_manifest, compute_sha256 and derive_from_filename.
manifest_vars == <<pc, file, era_opt, block_hash_opt, block_height_opt, chunk_size,
                   size_bytes, header, fields, path, from_name, handles, decode_opens,
                   fpos, hasher, digest, manifest, exc>>

\* The state of the Invariant Validator.
validator_vars == <<envelope, allow_list, cursor, utxo_seen, gov_delta_sum,
                    param_sets_seen, end_seen, report, verdict>>

\* The state of weekly_status_markdown.main and of screen_strings.
script_vars == <<wpc, utc_now, github, today, last_start, last_end, try_projects, done_items,
                 inprog_items, md, line, screened>>

vars == <<manifest_vars, validator_vars, script_vars>>

----------------------------------------------------------------------------
(* Bounds of the model *)

\* Integer overrides, header heights and filename slots range up to this value.
MaxHeight == 2

\* Declared governance counts in the header range over 0..MaxCount.
MaxCount == 1

\* Byte-level files hashed with a caller-chosen chunk size hold up to this many bytes.
MaxFileLen == 3

\* Caller-chosen chunk sizes range over -1..MaxChunk.
MaxChunk == 3

\* created_at is one of the instants 1..MaxClock.
MaxClock == 1

\* The validator is given record sequences of up to MaxRecords records.
MaxRecords == 3

\* Declared counts of the validator's envelopes range over 0..MaxDeclared.
MaxDeclared == 1

\* weekly_status_markdown.main runs on MaxDays consecutive days.
MaxDays == 7

\* GitHub holds up to MaxIssues issues.
MaxIssues == 1

\* screen_strings is given lines of up to MaxLine characters.
MaxLine == 6

(* Program constants *)

\* 64 * 1024 * 1024
SizeCeiling == 67108864

\* 16 * 1024 * 1024
DefaultChunkSize == 16777216

----------------------------------------------------------------------------
(* Python values *)

PyNone == [t |-> "none", i |-> 0, s |-> <<>>, b |-> <<>>, m |-> <<>>]

PyInt(n) == [t |-> "int", i |-> n, s |-> <<>>, b |-> <<>>, m |-> <<>>]

PyStr(cs) == [t |-> "str", i |-> 0, s |-> cs, b |-> <<>>, m |-> <<>>]

PyBytes(bs) == [t |-> "bytes", i |-> 0, s |-> <<>>, b |-> bs, m |-> <<>>]

PyDict(f) == [t |-> "dict", i |-> 0, s |-> <<>>, b |-> <<>>, m |-> f]

\* A list is held by its length only where its elements are never read.
PyList(n) == [t |-> "list", i |-> n, s |-> <<>>, b |-> <<>>, m |-> <<>>]

\* Python's truth value of v, as `not v` and `v or w` use it.
Truthy(v) ==
    CASE v.t = "none" -> FALSE
      [] v.t = "int" -> v.i # 0
      [] v.t = "str" -> v.s # <<>>
      [] v.t = "bytes" -> v.b # <<>>
      [] v.t = "dict" -> DOMAIN v.m # {}
      [] v.t = "list" -> v.i # 0

\* a or b
PyOr(a, b) == IF Truthy(a) THEN a ELSE b

\* dict.get(k, default)
DictGet(d, k, default) == IF k \in DOMAIN d.m THEN d.m[k] ELSE default

----------------------------------------------------------------------------
(* Characters and strings: a str is a sequence of one-character strings *)

UpperChars == <<"A","B","C","D","E","F","G","H","I","J","K","L","M",
                "N","O","P","Q","R","S","T","U","V","W","X","Y","Z">>

LowerChars == <<"a","b","c","d","e","f","g","h","i","j","k","l","m",
                "n","o","p","q","r","s","t","u","v","w","x","y","z">>

DigitChars == <<"0","1","2","3","4","5","6","7","8","9">>

\* The characters of '0123456789abcdefABCDEF' (line 103).
HexChars == {"0","1","2","3","4","5","6","7","8","9",
             "a","b","c","d","e","f","A","B","C","D","E","F"}

IndexIn(seq, c) == CHOOSE k \in 1..Len(seq) : seq[k] = c

IsIn(seq, c) == \E k \in 1..Len(seq) : seq[k] = c

LowerChar(c) == IF IsIn(UpperChars, c) THEN LowerChars[IndexIn(UpperChars, c)] ELSE c

\* str.lower()
Lower(cs) == [k \in 1..Len(cs) |-> LowerChar(cs[k])]

\* bytes.hex(): two lowercase hex digits per byte
HexDigits == <<"0","1","2","3","4","5","6","7","8","9","a","b","c","d","e","f">>

RECURSIVE BytesHex(_)
BytesHex(bs) ==
    IF bs = <<>> THEN <<>>
    ELSE <<HexDigits[(bs[1] \div 16) + 1], HexDigits[(bs[1] % 16) + 1]>> \o BytesHex(Tail(bs))

\* str.split('.'): the components between the dots, empty ones kept
RECURSIVE SplitDots(_, _)
SplitDots(cs, cur) ==
    IF cs = <<>> THEN <<cur>>
    ELSE IF cs[1] = "." THEN <<cur>> \o SplitDots(Tail(cs), <<>>)
    ELSE SplitDots(Tail(cs), Append(cur, cs[1]))

Split(cs) == SplitDots(cs, <<>>)

RECURSIVE DigitsValue(_, _)
DigitsValue(cs, acc) ==
    IF cs = <<>> THEN acc
    ELSE DigitsValue(Tail(cs), 10 * acc + (IndexIn(DigitChars, cs[1]) - 1))

\* The ASCII characters str.strip() takes as whitespace: the blank, the tab, the
\* line feed, the carriage return, the form feed, the vertical tab (0x0B) and the
\* four separators 0x1C to 0x1F.
WhitespaceChars ==
    {" ", "\t", "\n", "\r", "\f", "", "", "", "", ""}

\* s.strip() with ws the characters taken as whitespace: the text from its first to
\* its last character outside ws.
Strip(cs, ws) ==
    LET kept == {k \in 1..Len(cs) : cs[k] \notin ws}
    IN  IF kept = {} THEN <<>>
        ELSE SubSeq(cs, CHOOSE k \in kept : \A j \in kept : k <= j,
                        CHOOSE k \in kept : \A j \in kept : k >= j)

\* The digits part of a text int() accepts: decimal digits, with single underscores
\* between them.
IntLiteral(cs) ==
    /\ cs # <<>>
    /\ \A k \in 1..Len(cs) : IsIn(DigitChars, cs[k]) \/ cs[k] = "_"
    /\ cs[1] # "_" /\ cs[Len(cs)] # "_"
    /\ \A k \in 1..(Len(cs) - 1) : ~(cs[k] = "_" /\ cs[k + 1] = "_")

\* int(s) for a str of ASCII characters: <<TRUE, value>>, or <<FALSE, 0>> where int
\* raises ValueError. Surrounding whitespace is dropped, a sign may come first, and
\* the underscores between the digits do not count. The separators 0x1C to 0x1F are
\* whitespace to str.strip() and not to int().
ParseInt(cs) ==
    LET space == WhitespaceChars \ {"", "", "", ""}
        s == Strip(cs, space)
        signed == s # <<>> /\ s[1] \in {"-", "+"}
        digits == IF signed THEN Tail(s) ELSE s
    IN  IF IntLiteral(digits)
        THEN <<TRUE, (IF signed /\ s[1] = "-" THEN -1 ELSE 1)
                         * DigitsValue(SelectSeq(digits, LAMBDA c : c # "_"), 0)>>
        ELSE <<FALSE, 0>>

----------------------------------------------------------------------------
(* Raw bytes, run-length encoded: a sequence of runs [b |-> byte, n |-> count],  *)
(* every count > 0 and neighbouring runs of different bytes, so that two byte    *)
(* strings are equal exactly when their encodings are.                           *)

RECURSIVE RLen(_)
RLen(r) == IF r = <<>> THEN 0 ELSE r[1].n + RLen(Tail(r))

\* The first k bytes of r.
RECURSIVE RTake(_, _)
RTake(r, k) ==
    IF r = <<>> \/ k <= 0 THEN <<>>
    ELSE IF r[1].n <= k THEN <<r[1]>> \o RTake(Tail(r), k - r[1].n)
    ELSE <<[b |-> r[1].b, n |-> k]>>

\* r without its first k bytes.
RECURSIVE RDrop(_, _)
RDrop(r, k) ==
    IF r = <<>> \/ k <= 0 THEN r
    ELSE IF r[1].n <= k THEN RDrop(Tail(r), k - r[1].n)
    ELSE <<[b |-> r[1].b, n |-> r[1].n - k]>> \o Tail(r)

\* Concatenation.
RCat(x, y) ==
    IF x = <<>> THEN y
    ELSE IF y = <<>> THEN x
    ELSE IF x[Len(x)].b = y[1].b
         THEN SubSeq(x, 1, Len(x) - 1) \o <<[b |-> y[1].b, n |-> x[Len(x)].n + y[1].n]>> \o Tail(y)
         ELSE x \o y

\* f.read(n) at position pos of a file opened 'rb' and holding data: the next n
\* bytes, fewer at the end of the file; all the remaining ones for n = -1; ValueError
\* (read length must be non-negative or -1) for n below -1.
FileRead(data, pos, n) ==
    IF n < -1 THEN [exc |-> "ValueError", chunk |-> <<>>]
    ELSE IF n = -1 THEN [exc |-> "", chunk |-> RDrop(data, pos)]
    ELSE [exc |-> "", chunk |-> RTake(RDrop(data, pos), n)]
\* HasherUpdate on a hasher that is created anew for every chunk.
HasherUpdateFresh(fed, chunk) == chunk

\* Line 40, hasher.update(chunk): the bytes fed so far, then chunk.
HasherUpdate(fed, chunk) == RCat(fed, chunk)
\* StatSize counting in KiB instead of bytes.
StatSizeKiB(data) == RLen(data) \div 1024

\* Line 121, snapshot_path.stat().st_size
StatSize(data) == RLen(data)

\* Lines 35 and 55, `with open(...)` left normally: the handle is closed.
Release(n) == n - 1

\* ReleaseOnError for a handle closed by a plain f.close() after the reads, which
\* an exception skips.
ReleaseOnErrorLeaked(n) == n

\* Lines 35 and 55, `with open(...)` left by an exception: the handle is closed too.
ReleaseOnError(n) == n - 1

\* hashlib.sha256 over the bytes fed: SHA-256 is taken as injective on the inputs
\* of the model, so a digest is held as the byte string it is the digest of.
Sha256Hex(fed) == [sha256_of |-> fed]

----------------------------------------------------------------------------
(* parse_cbor_header *)
\* TooLargeToParse with the boundary value on the wrong side.
TooLargeToParseInclusive(size) == size >= SizeCeiling

\* Line 51: the size test that skips decoding.
TooLargeToParse(size) == size > SizeCeiling

\* Line 83, (x or 0) > 0: <<TRUE, truth value>>, or <<FALSE, FALSE>> where the
\* comparison raises TypeError.
OrZeroPositive(x) ==
    LET y == PyOr(x, PyInt(0))
    IN  IF y.t = "int" THEN <<TRUE, y.i > 0>> ELSE <<FALSE, FALSE>>
\* GovernancePresent looking at the governance-action count alone.
GovernancePresentActionsOnly(declared_gov_actions, declared_param_sets) ==
    OrZeroPositive(declared_gov_actions)

\* Line 83: <<TRUE, governance_present>>, or <<FALSE, FALSE>> where a comparison
\* raises TypeError; `or` does not evaluate its right side when the left is true.
GovernancePresent(declared_gov_actions, declared_param_sets) ==
    LET g == OrZeroPositive(declared_gov_actions)
        p == OrZeroPositive(declared_param_sets)
    IN  IF ~g[1] THEN <<FALSE, FALSE>>
        ELSE IF g[2] THEN <<TRUE, TRUE>>
        ELSE p

\* Line 76: the test that rejects a header.
HeaderRejected(era, block_height, block_hash_bytes) ==
    ~Truthy(era) \/ block_height.t = "none" \/ ~Truthy(block_hash_bytes)

\* Line 60: the test that rejects the decoded value.
DataRejected(data) == data.t # "list" \/ Len(data.items) < 2

\* Lines 60-91, on the value cbor2.load returned: k = "none" for None, k = "raise"
\* and exc for an exception that leaves the function, k = "dict" and d for the
\* returned dict.
NoHeader == [k |-> "none", exc |-> "", d |-> <<>>]

HeaderFromData(data) ==
    IF DataRejected(data) THEN NoHeader
    ELSE
    LET version == data.items[1]
        hdr == data.items[2]
    IN  IF hdr.t # "dict" THEN NoHeader
        ELSE
        LET era == DictGet(hdr, 0, PyNone)
            block_height == DictGet(hdr, 1, PyNone)
            block_hash_bytes == DictGet(hdr, 2, PyNone)
            declared_gov_actions == DictGet(hdr, 4, PyInt(0))
            declared_param_sets == DictGet(hdr, 5, PyInt(0))
        IN  IF HeaderRejected(era, block_height, block_hash_bytes) THEN NoHeader
            ELSE IF block_hash_bytes.t # "bytes"
            THEN [k |-> "raise", exc |-> "AttributeError", d |-> <<>>]
            ELSE
            LET gov == GovernancePresent(declared_gov_actions, declared_param_sets)
            IN  IF ~gov[1] THEN [k |-> "raise", exc |-> "TypeError", d |-> <<>>]
                ELSE [k |-> "dict", exc |-> "",
                      d |-> <<[version |-> version, era |-> era,
                               block_height |-> block_height,
                               block_hash |-> BytesHex(block_hash_bytes.b),
                               governance_section_present |-> gov[2]]>>]

\* Lines 54-58: cbor2.load under try/except: any exception gives None.
LoadedHeader(cbor) ==
    IF cbor.k = "raise" THEN NoHeader ELSE HeaderFromData(cbor.v)

----------------------------------------------------------------------------
(* derive_from_filename *)

NoneNone == <<PyNone, PyNone>>

AllHex(cs) == \A k \in 1..Len(cs) : cs[k] \in HexChars

\* Line 99: the shape test on the split name.
NameShapeOk(parts) == Len(parts) >= 3 /\ Lower(parts[Len(parts)]) = <<"c","b","o","r">>

derive_from_filename(name) ==
    LET parts == Split(name)
    IN  IF NameShapeOk(parts)
        THEN LET slot == ParseInt(parts[1])
                 hash_hex == parts[2]
             IN  IF ~slot[1] THEN NoneNone
                 ELSE IF AllHex(hash_hex) THEN <<PyInt(slot[2]), PyStr(Lower(hash_hex))>>
                 ELSE NoneNone
        ELSE NoneNone

----------------------------------------------------------------------------
(* generate_manifest, lines 127-137 *)

Unknown == <<"u","n","k","n","o","w","n">>

Conway == <<"c","o","n","w","a","y">>

\* Line 129
FallbackHeight(height_opt, slot_from_name) == PyOr(PyOr(height_opt, slot_from_name), PyInt(1))

\* Line 130
FallbackHash(hash_opt, hash_from_name) ==
    Lower(PyOr(PyOr(hash_opt, hash_from_name), PyStr(Unknown)).s)

\* Line 131
FallbackEra(e_opt) == PyOr(e_opt, PyStr(Conway))
\* FallbackFields reporting a governance section whenever a block hash is known.
FallbackFieldsGovFromHash(e_opt, hash_opt, height_opt, derived) ==
    [era |-> FallbackEra(e_opt),
     block_height |-> FallbackHeight(height_opt, derived[1]),
     block_hash |-> FallbackHash(hash_opt, derived[2]),
     governance_present |-> Truthy(PyOr(hash_opt, derived[2]))]

FallbackFields(e_opt, hash_opt, height_opt, derived) ==
    [era |-> FallbackEra(e_opt),
     block_height |-> FallbackHeight(height_opt, derived[1]),
     block_hash |-> FallbackHash(hash_opt, derived[2]),
     governance_present |-> FALSE]
\* HeaderFields with the caller's height override applied on the header path too.
HeaderFieldsOverridden(h) ==
    [era |-> h.era,
     block_height |-> PyOr(block_height_opt, h.block_height),
     block_hash |-> h.block_hash,
     governance_present |-> h.governance_section_present]

HeaderFields(h) ==
    [era |-> h.era,
     block_height |-> h.block_height,
     block_hash |-> h.block_hash,
     governance_present |-> h.governance_section_present]
\* Lines 143-153
MakeManifest(f, sha, size, now) ==
    [magic |-> "CARDANO_SNAPSHOT",
     version |-> "1.0.0",
     era |-> f.era,
     block_height |-> f.block_height,
     block_hash |-> f.block_hash,
     sha256 |-> sha,
     created_at |-> now,
     size_bytes |-> size,
     governance_section_present |-> f.governance_present]

----------------------------------------------------------------------------
(* Inputs *)

RECURSIVE JoinDots(_)
JoinDots(parts) ==
    IF Len(parts) = 1 THEN parts[1]
    ELSE parts[1] \o <<".">> \o JoinDots(Tail(parts))

Cbor == <<"c","b","o","r">>

\* First components of a file name: the integers 0..MaxHeight, signed ones, ones with
\* whitespace (a vertical tab too) or a separator 0x1C around the digits, ones with
\* underscores between the digits, a word, nothing.
NameFirsts ==
    {<<DigitChars[n + 1]>> : n \in 0..MaxHeight}
        \cup {<<"-","1">>, <<"+","1">>, <<"1","0">>, <<"x">>, <<>>}
        \cup {<<" ","1">>, <<"1","\n">>, <<"\t","-","1"," ">>, <<"-"," ","1">>, <<" ">>,
              <<"1","_","0">>, <<"1","_","_","0">>, <<"_","1">>, <<"1","_">>}
        \cup {<<"","1">>, <<"0","">>, <<"","1">>, <<"1",""," ">>}

\* Second components: hex of both cases, nothing, a non-hex word.
NameSeconds == {<<"a","B">>, <<"0","f">>, <<>>, <<"z">>}

\* What follows the second component.
NameTails == {<<Cbor>>, <<<<"C","B","O","R">>>>, <<<<"t","a","r">>, Cbor>>, <<<<"t","x","t">>>>}

\* File names given to derive_from_filename.
AllNames ==
    {JoinDots(<<a, b>> \o t) : a \in NameFirsts, b \in NameSeconds, t \in NameTails}
        \cup {JoinDots(<<<<"s">>, Cbor>>), <<"s">>}

\* File names given to generate_manifest.
ManifestNames ==
    {JoinDots(<<<<DigitChars[n + 1]>>, <<"a","B">>, Cbor>>) : n \in 0..MaxHeight}
        \cup {JoinDots(<<<<"-","1">>, <<"a","B">>, Cbor>>),
              JoinDots(<<<<"1">>, <<>>, Cbor>>),
              JoinDots(<<<<"1">>, <<"a","B">>, <<"t","a","r">>, Cbor>>),
              JoinDots(<<<<"1","_","0">>, <<"a","B">>, Cbor>>),
              JoinDots(<<<<"","2"," ">>, <<"a","B">>, Cbor>>),
              JoinDots(<<<<"s">>, Cbor>>)}

EraOpts == {PyNone, PyStr(<<>>), PyStr(<<"b","y","r","o","n">>)}

HashOpts == {PyNone, PyStr(<<>>), PyStr(<<"C","d">>)}

HeightOpts == {PyNone} \cup {PyInt(n) : n \in -1..MaxHeight}

\* A run-length encoding of a sequence of bytes.
RECURSIVE Encode(_)
Encode(bs) == IF bs = <<>> THEN <<>> ELSE RCat(<<[b |-> bs[1], n |-> 1]>>, Encode(Tail(bs)))

\* The files of up to MaxFileLen bytes over the bytes 0 and 1.
SmallData ==
    UNION {{Encode(bs) : bs \in [1..n -> {0, 1}]} : n \in 0..MaxFileLen}

\* Files around the size ceiling: one byte 1, then zero bytes.
BigData ==
    {<<[b |-> 1, n |-> 1], [b |-> 0, n |-> k]>> : k \in {SizeCeiling - 1, SizeCeiling}}

ManifestData == {<<>>, Encode(<<1, 0>>)} \cup BigData

\* A 32-byte block hash, as generate_cbor_fixtures.py builds it.
Hash32 == <<17, 34, 51, 68>> \o [k \in 1..28 |-> 170]

HdrMap(era, height, hash, utxos, gov, params) ==
    (0 :> era) @@ (1 :> height) @@ (2 :> hash) @@ (3 :> utxos) @@ (4 :> gov) @@ (5 :> params)

\* m without the key k.
Without(m, k) == [j \in DOMAIN m \ {k} |-> m[j]]

\* Lines 27-34 of generate_cbor_fixtures.py: the header of the valid snapshot.
BaseHdr == HdrMap(PyStr(Conway), PyInt(1000000), PyBytes(Hash32), PyInt(2), PyInt(3), PyInt(1))

\* Values a declared count may hold in a file: an integer, null, a text string.
CountVals == {PyInt(n) : n \in -1..MaxCount} \cup {PyNone, PyStr(<<"x">>)}

\* Header maps: the fixture header with one required field varied, and with every
\* combination of the declared counts, each present or absent.
HeaderMaps ==
    {[BaseHdr EXCEPT ![0] = v] :
        v \in {PyStr(<<>>), PyStr(<<"b","y","r","o","n">>), PyInt(5), PyNone}}
    \cup {[BaseHdr EXCEPT ![1] = v] :
        v \in {PyInt(0), PyInt(-1), PyNone, PyStr(<<"7">>)}}
    \cup {[BaseHdr EXCEPT ![2] = v] :
        v \in {PyBytes(<<>>), PyBytes(<<17, 34, 51, 68>>), PyStr(<<"a","b">>), PyNone}}
    \cup {Without(BaseHdr, k) : k \in 0..2}
    \cup {[[BaseHdr EXCEPT ![4] = g] EXCEPT ![5] = q] : g \in CountVals, q \in CountVals}
    \cup {Without([BaseHdr EXCEPT ![5] = q], 4) : q \in CountVals}
    \cup {Without([BaseHdr EXCEPT ![4] = g], 5) : g \in CountVals}
    \cup {Without(Without(Without(BaseHdr, 3), 4), 5)}
    \cup {Without([BaseHdr EXCEPT ![4] = PyInt(0), ![5] = PyInt(1)], 3)}

Loaded(t, items) == [k |-> "value", v |-> [t |-> t, items |-> items]]

\* cbor2.load raises part-way through a top-level list: the elements in items are
\* well-formed, the bytes after them are cut off or are no CBOR.
Truncated(items) == [k |-> "raise", v |-> [t |-> "list", items |-> items]]

\* What cbor2.load yields on a file: an exception, or the decoded value.  The
\* record sequence of an envelope is held as a list of a given length.
CborOutcomes ==
    {[k |-> "raise", v |-> [t |-> "none", items |-> <<>>]],
     Loaded("int", <<>>), Loaded("dict", <<>>),
     Loaded("list", <<>>), Loaded("list", <<PyInt(1)>>),
     Loaded("list", <<PyInt(1), PyInt(7)>>),
     Loaded("list", <<PyInt(1), PyInt(7), PyList(0)>>)}
    \cup {Loaded("list", <<PyInt(1), PyDict(h), PyList(1)>>) : h \in HeaderMaps}
    \cup {Loaded("list", <<PyInt(v), PyDict(BaseHdr)>> \o [k \in 1..n |-> PyList(k)]) :
            v \in {1, 2}, n \in 0..2}
    \cup {Loaded("list", <<PyInt(1), PyDict(BaseHdr), PyStr(<<"x">>)>>)}
    \cup {Truncated(<<PyInt(1), PyDict(h)>>) : h \in {BaseHdr, [BaseHdr EXCEPT ![4] = PyInt(0), ![5] = PyInt(0)]}}

\* Outcomes every override and file name is combined with.
CoreCbor ==
    {[k |-> "raise", v |-> [t |-> "none", items |-> <<>>]],
     Loaded("list", <<PyInt(1), PyDict(BaseHdr), PyList(1)>>),
     Loaded("list", <<PyInt(1), PyDict([BaseHdr EXCEPT ![4] = PyInt(0), ![5] = PyInt(0)]), PyList(1)>>),
     Loaded("list", <<PyInt(1), PyDict([BaseHdr EXCEPT ![2] = PyStr(<<"a","b">>)]), PyList(1)>>)}

File(name, exists, data, cbor) == [name |-> name, exists |-> exists, data |-> data, cbor |-> cbor]

----------------------------------------------------------------------------
(* State machine *)

\* The scripts before they are run.
ScriptsIdle ==
    /\ wpc = "idle"
    /\ utc_now = 0
    /\ github = [project |-> "none", labels |-> FALSE, issues |-> <<>>]
    /\ today = 0
    /\ last_start = <<>>
    /\ last_end = <<>>
    /\ try_projects = FALSE
    /\ done_items = <<>>
    /\ inprog_items = <<>>
    /\ md = <<>>
    /\ line = <<>>
    /\ screened = <<>>

\* The validator before it is given an envelope.
ValidatorIdle ==
    /\ envelope = [header |-> <<>>, records |-> <<>>]
    /\ allow_list = {}
    /\ cursor = 0
    /\ utxo_seen = 0
    /\ gov_delta_sum = 0
    /\ param_sets_seen = 0
    /\ end_seen = FALSE
    /\ report = {}
    /\ verdict = "idle"

\* The state in which a call starts on the given inputs.
Start(at, f, e, h, n, c) ==
    /\ ValidatorIdle
    /\ ScriptsIdle
    /\ pc = at
    /\ file = f
    /\ era_opt = e
    /\ block_hash_opt = h
    /\ block_height_opt = n
    /\ chunk_size = c
    /\ size_bytes = 0
    /\ header = <<>>
    /\ fields = <<>>
    /\ path = "none"
    /\ from_name = <<>>
    /\ handles = 0
    /\ decode_opens = 0
    /\ fpos = 0
    /\ hasher = <<>>
    /\ digest = <<>>
    /\ manifest = <<>>
    /\ exc = ""

\* An empty file is never decodable; every other pairing of bytes and decoded value
\* is left open, cbor2 being outside this repository.
Decodable(data, cbor) == data = <<>> => (cbor.k = "raise" /\ cbor.v.items = <<>>)

\* generate_manifest(snapshot_path, era_opt, block_hash_opt, block_height_opt) is called:
\* every override and name with the core files, every file with two override sets,
\* and a missing file.
Init ==
    \/ \E name \in ManifestNames, data \in ManifestData, cbor \in CoreCbor,
          e \in EraOpts, h \in HashOpts, n \in HeightOpts :
            /\ Decodable(data, cbor)
            /\ Start("call", File(name, TRUE, data, cbor), e, h, n, DefaultChunkSize)
    \/ \E name \in {JoinDots(<<<<"1">>, <<"a","B">>, Cbor>>), JoinDots(<<<<"s">>, Cbor>>)},
          data \in ManifestData, cbor \in CborOutcomes,
          o \in {<<PyNone, PyNone, PyNone>>,
                 <<PyStr(<<"b","y","r","o","n">>), PyStr(<<"C","d">>), PyInt(MaxHeight)>>} :
            /\ Decodable(data, cbor)
            /\ Start("call", File(name, TRUE, data, cbor), o[1], o[2], o[3], DefaultChunkSize)
    \/ \E name \in ManifestNames :
            Start("call", File(name, FALSE, <<>>, [k |-> "raise", v |-> [t |-> "none", items |-> <<>>]]),
                  PyNone, PyNone, PyNone, DefaultChunkSize)

\* Lines 118-121: the existence test and the stat.
Enter ==
    /\ pc = "call"
    /\ IF ~file.exists
       THEN /\ pc' = "raised"
            /\ exc' = "FileNotFoundError"
            /\ UNCHANGED size_bytes
       ELSE /\ pc' = "parse"
            /\ size_bytes' = StatSize(file.data)
            /\ UNCHANGED exc
    /\ UNCHANGED <<validator_vars, script_vars, file, era_opt, block_hash_opt, block_height_opt, chunk_size, header,
                   fields, path, from_name, handles, decode_opens, fpos, hasher, digest,
                   manifest>>

\* Lines 51-52: parse_cbor_header returns None without opening the file.
ParseSkip ==
    /\ pc = "parse"
    /\ TooLargeToParse(size_bytes)
    /\ header' = <<>>
    /\ pc' = "branch"
    /\ UNCHANGED <<validator_vars, script_vars, file, era_opt, block_hash_opt, block_height_opt, chunk_size, size_bytes,
                   fields, path, from_name, handles, decode_opens, fpos, hasher, digest,
                   manifest, exc>>

\* Line 55: the file is opened for decoding.
ParseOpen ==
    /\ pc = "parse"
    /\ ~TooLargeToParse(size_bytes)
    /\ handles' = handles + 1
    /\ decode_opens' = decode_opens + 1
    /\ pc' = "load"
    /\ UNCHANGED <<validator_vars, script_vars, file, era_opt, block_hash_opt, block_height_opt, chunk_size, size_bytes,
                   header, fields, path, from_name, fpos, hasher, digest, manifest, exc>>

\* Lines 56-91: cbor2.load, the handle released by `with`, and the header built.
ParseLoad ==
    /\ pc = "load"
    /\ handles' = IF file.cbor.k = "raise" THEN ReleaseOnError(handles) ELSE Release(handles)
    /\ LET r == LoadedHeader(file.cbor)
       IN  IF r.k = "raise"
           THEN /\ pc' = "raised"
                /\ exc' = r.exc
                /\ UNCHANGED header
           ELSE /\ pc' = "branch"
                /\ header' = r.d
                /\ UNCHANGED exc
    /\ UNCHANGED <<validator_vars, script_vars, file, era_opt, block_hash_opt, block_height_opt, chunk_size, size_bytes,
                   fields, path, from_name, decode_opens, fpos, hasher, digest, manifest>>

\* Lines 127-132: header is None.
TakeFallback ==
    /\ pc = "branch"
    /\ header = <<>>
    /\ from_name' = derive_from_filename(file.name)
    /\ fields' = <<FallbackFields(era_opt, block_hash_opt, block_height_opt,
                                  derive_from_filename(file.name))>>
    /\ path' = "fallback"
    /\ pc' = "sha_open"
    /\ UNCHANGED <<validator_vars, script_vars, file, era_opt, block_hash_opt, block_height_opt, chunk_size, size_bytes,
                   header, handles, decode_opens, fpos, hasher, digest, manifest, exc>>

\* Lines 133-137: a header was returned.
TakeHeader ==
    /\ pc = "branch"
    /\ header # <<>>
    /\ fields' = <<HeaderFields(header[1])>>
    /\ path' = "header"
    /\ pc' = "sha_open"
    /\ UNCHANGED <<validator_vars, script_vars, file, era_opt, block_hash_opt, block_height_opt, chunk_size, size_bytes,
                   header, from_name, handles, decode_opens, fpos, hasher, digest, manifest,
                   exc>>

\* Lines 34-35: compute_sha256 creates the hasher and opens the file.
ShaOpen ==
    /\ pc = "sha_open"
    /\ hasher' = <<>>
    /\ fpos' = 0
    /\ handles' = handles + 1
    /\ pc' = "sha_read"
    /\ UNCHANGED <<validator_vars, script_vars, file, era_opt, block_hash_opt, block_height_opt, chunk_size, size_bytes,
                   header, fields, path, from_name, decode_opens, digest, manifest, exc>>

\* Lines 37-40: a chunk is read and is not empty.
ShaUpdate ==
    /\ pc = "sha_read"
    /\ LET read == FileRead(file.data, fpos, chunk_size)
       IN  /\ read.exc = ""
           /\ read.chunk # <<>>
           /\ hasher' = HasherUpdate(hasher, read.chunk)
           /\ fpos' = fpos + RLen(read.chunk)
    /\ UNCHANGED <<validator_vars, script_vars, pc, file, era_opt, block_hash_opt, block_height_opt, chunk_size,
                   size_bytes, header, fields, path, from_name, handles, decode_opens,
                   digest, manifest, exc>>

\* Lines 37-41: the chunk read is empty; the loop ends, the handle is released and
\* the digest returned.
ShaFinish ==
    /\ pc = "sha_read"
    /\ FileRead(file.data, fpos, chunk_size) = [exc |-> "", chunk |-> <<>>]
    /\ handles' = Release(handles)
    /\ digest' = <<Sha256Hex(hasher)>>
    /\ pc' = "sha_done"
    /\ UNCHANGED <<validator_vars, script_vars, file, era_opt, block_hash_opt, block_height_opt, chunk_size, size_bytes,
                   header, fields, path, from_name, decode_opens, fpos, hasher, manifest,
                   exc>>

\* Lines 140-155: the manifest is assembled and returned.
Assemble ==
    /\ pc = "sha_done"
    /\ fields # <<>>
    /\ \E now \in 1..MaxClock :
        manifest' = <<MakeManifest(fields[1], digest[1], size_bytes, now)>>
    /\ pc' = "done"
    /\ UNCHANGED <<validator_vars, script_vars, file, era_opt, block_hash_opt, block_height_opt, chunk_size, size_bytes,
                   header, fields, path, from_name, handles, decode_opens, fpos, hasher,
                   digest, exc>>

Next ==
    \/ Enter
    \/ ParseSkip
    \/ ParseOpen
    \/ ParseLoad
    \/ TakeFallback
    \/ TakeHeader
    \/ ShaOpen
    \/ ShaUpdate
    \/ ShaFinish
    \/ Assemble

Spec == Init /\ [][Next]_vars

----------------------------------------------------------------------------
(* compute_sha256(file_path, chunk_size) called on its own *)

\* Chunk sizes a caller passes: -MaxChunk..MaxChunk, 1 KiB, and the default.
ChunkSizes == ((-MaxChunk)..MaxChunk) \cup {1024, DefaultChunkSize}

InitSha ==
    \/ \E data \in SmallData, c \in ChunkSizes :
        Start("sha_open", File(<<"s">>, TRUE, data, [k |-> "raise", v |-> [t |-> "none", items |-> <<>>]]),
              PyNone, PyNone, PyNone, c)
    \/ \E data \in BigData, c \in {-1, 0, DefaultChunkSize} :
        Start("sha_open", File(<<"s">>, TRUE, data, [k |-> "raise", v |-> [t |-> "none", items |-> <<>>]]),
              PyNone, PyNone, PyNone, c)

\* Line 37: f.read(chunk_size) raises ValueError on a chunk size below -1; `with`
\* closes the handle and the exception leaves compute_sha256.
ShaReadInvalid ==
    /\ pc = "sha_read"
    /\ FileRead(file.data, fpos, chunk_size).exc = "ValueError"
    /\ handles' = ReleaseOnError(handles)
    /\ pc' = "raised"
    /\ exc' = "ValueError"
    /\ UNCHANGED <<validator_vars, script_vars, file, era_opt, block_hash_opt,
                   block_height_opt, chunk_size, size_bytes, header, fields, path,
                   from_name, decode_opens, fpos, hasher, digest, manifest>>

NextSha == ShaOpen \/ ShaUpdate \/ ShaFinish \/ ShaReadInvalid

SpecSha == InitSha /\ [][NextSha]_vars

----------------------------------------------------------------------------
(* derive_from_filename(snapshot_path) called on its own *)

InitDerive ==
    \E name \in AllNames :
        Start("derive", File(name, TRUE, <<>>, [k |-> "raise", v |-> [t |-> "none", items |-> <<>>]]),
              PyNone, PyNone, PyNone, DefaultChunkSize)

Derive ==
    /\ pc = "derive"
    /\ from_name' = derive_from_filename(file.name)
    /\ pc' = "derived"
    /\ UNCHANGED <<validator_vars, script_vars, file, era_opt, block_hash_opt, block_height_opt, chunk_size, size_bytes,
                   header, fields, path, handles, decode_opens, fpos, hasher, digest,
                   manifest, exc>>

NextDerive == Derive

SpecDerive == InitDerive /\ [][NextDerive]_vars

----------------------------------------------------------------------------
(* generate_manifest on a file whose open and read calls may fail with OSError *)

\* Line 55: open raises inside the try block; parse_cbor_header returns None.
ParseOpenError ==
    /\ pc = "parse"
    /\ ~TooLargeToParse(size_bytes)
    /\ header' = <<>>
    /\ pc' = "branch"
    /\ UNCHANGED <<validator_vars, script_vars, file, era_opt, block_hash_opt, block_height_opt, chunk_size, size_bytes,
                   fields, path, from_name, handles, decode_opens, fpos, hasher, digest,
                   manifest, exc>>

\* Line 56: a read inside cbor2.load raises; `with` closes the handle and the
\* exception is caught at line 57; parse_cbor_header returns None.
ParseLoadError ==
    /\ pc = "load"
    /\ handles' = ReleaseOnError(handles)
    /\ header' = <<>>
    /\ pc' = "branch"
    /\ UNCHANGED <<validator_vars, script_vars, file, era_opt, block_hash_opt, block_height_opt, chunk_size, size_bytes,
                   fields, path, from_name, decode_opens, fpos, hasher, digest, manifest,
                   exc>>

\* Line 35: open raises; the exception leaves compute_sha256 and generate_manifest.
ShaOpenError ==
    /\ pc = "sha_open"
    /\ pc' = "raised"
    /\ exc' = "OSError"
    /\ UNCHANGED <<validator_vars, script_vars, file, era_opt, block_hash_opt, block_height_opt, chunk_size, size_bytes,
                   header, fields, path, from_name, handles, decode_opens, fpos, hasher,
                   digest, manifest>>

\* Line 37: f.read raises; `with` closes the handle and the exception leaves
\* compute_sha256 and generate_manifest.
ShaReadError ==
    /\ pc = "sha_read"
    /\ handles' = ReleaseOnError(handles)
    /\ pc' = "raised"
    /\ exc' = "OSError"
    /\ UNCHANGED <<validator_vars, script_vars, file, era_opt, block_hash_opt, block_height_opt, chunk_size, size_bytes,
                   header, fields, path, from_name, decode_opens, fpos, hasher, digest,
                   manifest>>

NextIO ==
    \/ Next
    \/ ParseOpenError
    \/ ParseLoadError
    \/ ShaOpenError
    \/ ShaReadError

SpecIO == Init /\ [][NextIO]_vars

----------------------------------------------------------------------------
(* The Invariant Validator: validate(Header, RecordCursor) -> ValidationReport.
   The repository's sources hold its test inputs (generate_cbor_fixtures.py) but
   not the validator, so the algorithm below is the one the specification's
   section 4.3 gives, step by step. *)

\* Record kinds by tag, as generate_cbor_fixtures.py writes them.
KindOf(tag) ==
    CASE tag = 0 -> "Utxo"
      [] tag = 1 -> "GovernanceActionsDelta"
      [] tag = 2 -> "TipUpdate"
      [] tag = 3 -> "ParameterSet"
      [] tag = 4 -> "EndOfSnapshot"

\* A record as the validator sees it: its tag and, for a delta, its payload d.
Rec(tag, d) == [tag |-> tag, d |-> d]

RecUtxo == Rec(0, 0)

RecDelta(d) == Rec(1, d)

RecTip == Rec(2, 0)

RecParams == Rec(3, 0)

RecEnd == Rec(4, 0)

\* A diagnostic of the ValidationReport.
Diag(name) == [d |-> name, kind |-> "", declared |-> 0, actual |-> 0]

CountMismatch(kind, declared, actual) ==
    [d |-> "CountMismatch", kind |-> kind, declared |-> declared, actual |-> actual]

\* gov_delta_sum with every delta record counted as one, whatever its payload.
AddDeltaCountsRecords(sum, d) == sum + 1

\* "for each GovernanceActionsDelta(d) adds d to gov_delta_sum"
AddDelta(sum, d) == sum + d

\* AfterEnd with a second EndOfSnapshot treated as any other record after the end.
AfterEndAlwaysTrailing(kind) == Diag("TrailingDataAfterEnd")

\* The diagnostic for a record read while end_seen is true: "for EndOfSnapshot, if
\* end_seen is already true, fail immediately with DuplicateEndMarker"; "any further
\* record is TrailingDataAfterEnd".
AfterEnd(kind) ==
    IF kind = "EndOfSnapshot" THEN Diag("DuplicateEndMarker")
    ELSE Diag("TrailingDataAfterEnd")

\* Mismatches that stops at the first kind that differs, in the order Utxo,
\* GovernanceActionsDelta, ParameterSet.
MismatchesFirstOnly(hdr, utxos, gov, params) ==
    IF hdr[3].i # utxos THEN {CountMismatch("Utxo", hdr[3].i, utxos)}
    ELSE IF hdr[4].i # gov THEN {CountMismatch("GovernanceActionsDelta", hdr[4].i, gov)}
    ELSE IF hdr[5].i # params THEN {CountMismatch("ParameterSet", hdr[5].i, params)}
    ELSE {}

\* "compare each running counter against its declared value and fail with
\* CountMismatch{kind, declared, actual} for every mismatch"
Mismatches(hdr, utxos, gov, params) ==
    {m \in {CountMismatch("Utxo", hdr[3].i, utxos),
            CountMismatch("GovernanceActionsDelta", hdr[4].i, gov),
            CountMismatch("ParameterSet", hdr[5].i, params)} : m.declared # m.actual}

\* EndOfStreamReport that goes straight to the count comparison.
EndOfStreamReportCountsOnly(seen_end, mismatches) == mismatches

\* "On EndOfStream from the cursor: if end_seen is false, fail with MissingEndMarker;
\* otherwise compare each running counter against its declared value"
EndOfStreamReport(seen_end, mismatches) ==
    IF ~seen_end THEN {Diag("MissingEndMarker")} ELSE mismatches

(* Inputs of the validator *)

Byron == <<"b","y","r","o","n">>

\* generate_cbor_fixtures.py line 25 to 43: valid_snapshot.cbor
ValidSnapshot ==
    [header |-> HdrMap(PyStr(Conway), PyInt(1000000), PyBytes(Hash32),
                       PyInt(2), PyInt(3), PyInt(1)),
     records |-> <<RecUtxo, RecUtxo, RecTip, RecDelta(3), RecParams, RecEnd>>]

\* Line 47 to 54: missing_end.cbor
MissingEnd ==
    [header |-> HdrMap(PyStr(Conway), PyInt(1000000), PyBytes(Hash32),
                       PyInt(1), PyInt(0), PyInt(0)),
     records |-> <<RecUtxo>>]

\* Line 58 to 65: count_mismatch.cbor
CountMismatchFixture ==
    [header |-> HdrMap(PyStr(Conway), PyInt(1000000), PyBytes(Hash32),
                       PyInt(5), PyInt(0), PyInt(0)),
     records |-> <<RecUtxo, RecEnd>>]

\* Line 69 to 77: duplicate_end.cbor
DuplicateEnd ==
    [header |-> HdrMap(PyStr(Conway), PyInt(1000000), PyBytes(Hash32),
                       PyInt(1), PyInt(0), PyInt(0)),
     records |-> <<RecUtxo, RecEnd, RecEnd>>]

\* Line 81 to 87: wrong_era.cbor
WrongEra ==
    [header |-> HdrMap(PyStr(Byron), PyInt(1000000), PyBytes(Hash32),
                       PyInt(0), PyInt(0), PyInt(0)),
     records |-> <<RecEnd>>]

Fixtures == {ValidSnapshot, MissingEnd, CountMismatchFixture, DuplicateEnd, WrongEra}

\* The records of the bounded envelopes: every kind, deltas of either sign.
RecordKinds == {RecUtxo, RecDelta(1), RecDelta(-1), RecTip, RecParams, RecEnd}

RecordSeqs == UNION {[1..n -> RecordKinds] : n \in 0..MaxRecords}

\* Every envelope of up to MaxRecords records with declared counts in 0..MaxDeclared.
BoundedEnvelopes ==
    {[header |-> HdrMap(PyStr(era), PyInt(MaxHeight), PyBytes(Hash32),
                        PyInt(u), PyInt(g), PyInt(p)),
      records |-> rs] :
        era \in {Conway, Byron}, u \in 0..MaxDeclared, g \in 0..MaxDeclared,
        p \in 0..MaxDeclared, rs \in RecordSeqs}

\* Allow-lists a caller supplies.
AllowLists == {{Conway}, {Conway, Byron}}

(* The validator as a state machine: one action per step of the algorithm *)

\* The manifest builder before it is called: the validator runs on its own.
ManifestIdle ==
    /\ pc = "idle"
    /\ file = [name |-> <<>>, exists |-> FALSE, data |-> <<>>,
               cbor |-> [k |-> "raise", v |-> [t |-> "list", items |-> <<>>]]]
    /\ era_opt = PyNone
    /\ block_hash_opt = PyNone
    /\ block_height_opt = PyNone
    /\ chunk_size = DefaultChunkSize
    /\ size_bytes = 0
    /\ header = <<>>
    /\ fields = <<>>
    /\ path = "none"
    /\ from_name = NoneNone
    /\ handles = 0
    /\ decode_opens = 0
    /\ fpos = 0
    /\ hasher = <<>>
    /\ digest = <<>>
    /\ manifest = <<>>
    /\ exc = ""

\* validate(Header, RecordCursor) is called with the allow-list of the caller.
InitValidate ==
    /\ ManifestIdle
    /\ ScriptsIdle
    /\ envelope \in Fixtures \cup BoundedEnvelopes
    /\ allow_list \in AllowLists
    /\ cursor = 0
    /\ utxo_seen = 0
    /\ gov_delta_sum = 0
    /\ param_sets_seen = 0
    /\ end_seen = FALSE
    /\ report = {}
    /\ verdict = "start"

\* The record cursor.next() returns, where it returns one.
NextRecord == envelope.records[cursor + 1]

\* cursor.next() returns a record while the validator is consuming.
Pulls(kinds) ==
    /\ verdict = "running"
    /\ cursor < Len(envelope.records)
    /\ KindOf(NextRecord.tag) \in kinds

\* "Era is checked against a caller-supplied allow-list"; the era is in it.
EraAllowed ==
    /\ verdict = "start"
    /\ envelope.header[0].s \in allow_list
    /\ verdict' = "running"
    /\ UNCHANGED <<manifest_vars, script_vars, envelope, allow_list, cursor, utxo_seen, gov_delta_sum,
                   param_sets_seen, end_seen, report>>

\* EraRejected for a validator that checks the era only once the records are read.
EraRejectedLate ==
    /\ verdict = "start"
    /\ envelope.header[0].s \notin allow_list
    /\ verdict' = "running"
    /\ UNCHANGED <<manifest_vars, script_vars, envelope, allow_list, cursor, utxo_seen, gov_delta_sum,
                   param_sets_seen, end_seen, report>>

\* "an unrecognized era fails with UnsupportedEra before record-level validation
\* begins"
EraRejected ==
    /\ verdict = "start"
    /\ envelope.header[0].s \notin allow_list
    /\ report' = {Diag("UnsupportedEra")}
    /\ verdict' = "failed"
    /\ UNCHANGED <<manifest_vars, script_vars, envelope, allow_list, cursor, utxo_seen, gov_delta_sum,
                   param_sets_seen, end_seen>>

\* "for each Utxo increments utxo_seen"
OnUtxo ==
    /\ Pulls({"Utxo"})
    /\ ~end_seen
    /\ cursor' = cursor + 1
    /\ utxo_seen' = utxo_seen + 1
    /\ UNCHANGED <<manifest_vars, script_vars, envelope, allow_list, gov_delta_sum, param_sets_seen,
                   end_seen, report, verdict>>

\* "for each GovernanceActionsDelta(d) adds d to gov_delta_sum"
OnGovernanceActionsDelta ==
    /\ Pulls({"GovernanceActionsDelta"})
    /\ ~end_seen
    /\ cursor' = cursor + 1
    /\ gov_delta_sum' = AddDelta(gov_delta_sum, NextRecord.d)
    /\ UNCHANGED <<manifest_vars, script_vars, envelope, allow_list, utxo_seen, param_sets_seen,
                   end_seen, report, verdict>>

\* "for each ParameterSet increments param_sets_seen"
OnParameterSet ==
    /\ Pulls({"ParameterSet"})
    /\ ~end_seen
    /\ cursor' = cursor + 1
    /\ param_sets_seen' = param_sets_seen + 1
    /\ UNCHANGED <<manifest_vars, script_vars, envelope, allow_list, utxo_seen, gov_delta_sum,
                   end_seen, report, verdict>>

\* "for TipUpdate, no counter change"
OnTipUpdate ==
    /\ Pulls({"TipUpdate"})
    /\ ~end_seen
    /\ cursor' = cursor + 1
    /\ UNCHANGED <<manifest_vars, script_vars, envelope, allow_list, utxo_seen, gov_delta_sum,
                   param_sets_seen, end_seen, report, verdict>>

\* "for EndOfSnapshot ... otherwise set end_seen and continue consuming"
OnEndOfSnapshot ==
    /\ Pulls({"EndOfSnapshot"})
    /\ ~end_seen
    /\ cursor' = cursor + 1
    /\ end_seen' = TRUE
    /\ UNCHANGED <<manifest_vars, script_vars, envelope, allow_list, utxo_seen, gov_delta_sum,
                   param_sets_seen, report, verdict>>

\* A record read while end_seen is true: validation fails at once, with
\* DuplicateEndMarker for an EndOfSnapshot and TrailingDataAfterEnd for any other.
OnRecordAfterEnd ==
    /\ Pulls({"Utxo", "GovernanceActionsDelta", "ParameterSet", "TipUpdate",
              "EndOfSnapshot"})
    /\ end_seen
    /\ cursor' = cursor + 1
    /\ report' = {AfterEnd(KindOf(NextRecord.tag))}
    /\ verdict' = "failed"
    /\ UNCHANGED <<manifest_vars, script_vars, envelope, allow_list, utxo_seen, gov_delta_sum,
                   param_sets_seen, end_seen>>

\* "On EndOfStream from the cursor": MissingEndMarker, or the count comparison, which
\* succeeds if all counters match.
OnEndOfStream ==
    /\ verdict = "running"
    /\ cursor = Len(envelope.records)
    /\ report' = EndOfStreamReport(end_seen, Mismatches(envelope.header, utxo_seen,
                                                        gov_delta_sum, param_sets_seen))
    /\ verdict' = IF report' = {} THEN "ok" ELSE "failed"
    /\ UNCHANGED <<manifest_vars, script_vars, envelope, allow_list, cursor, utxo_seen, gov_delta_sum,
                   param_sets_seen, end_seen>>

NextValidate ==
    \/ EraAllowed
    \/ EraRejected
    \/ OnUtxo
    \/ OnGovernanceActionsDelta
    \/ OnParameterSet
    \/ OnTipUpdate
    \/ OnEndOfSnapshot
    \/ OnRecordAfterEnd
    \/ OnEndOfStream

SpecValidate == InitValidate /\ [][NextValidate]_vars

----------------------------------------------------------------------------
(* weekly_status_markdown.py: dates are day ordinals (date.toordinal), datetimes
   are seconds since midnight of ordinal 0, absent or None values are <<>> *)

SecondsPerDay == 24 * 60 * 60

\* dt.timedelta(days=, seconds=): normalised so that 0 <= seconds < 86400.
Timedelta(days, seconds) ==
    [days |-> days + (seconds \div SecondsPerDay), seconds |-> seconds % SecondsPerDay]

\* date.weekday(): Monday is 0; ordinal 1 is a Monday.
Weekday(d) == (d + 6) % 7

\* date - timedelta: only the timedelta's days take part.
DateMinus(d, td) == d - td.days

\* dt.datetime.combine(date, dt.time(h, mi, s), tzinfo=utc)
Combine(d, h, mi, s) == d * SecondsPerDay + (h * 60 + mi) * 60 + s

\* datetime.date()
DateOf(t) == t \div SecondsPerDay

\* (a - b).days for two datetimes
DiffDays(a, b) == (a - b) \div SecondsPerDay

\* Line 48 to 49
previous_monday(d) == DateMinus(d, Timedelta(Weekday(d), 0))

\* Line 51 to 58
last_week_window(d) ==
    LET this_monday == previous_monday(d)
        last_monday == DateMinus(this_monday, Timedelta(7, 0))
        last_sunday == DateMinus(this_monday, Timedelta(0, 1))
    IN  [start |-> Combine(last_monday, 0, 0, 0), end |-> Combine(last_sunday, 23, 59, 59)]

\* An item as the fetch functions build it; state is "" where the dict has no
\* "state" key.
Item(number, closedAt, updatedAt, state) ==
    [number |-> number, type |-> "Issue", closedAt |-> closedAt, mergedAt |-> <<>>,
     updatedAt |-> updatedAt, state |-> state]

\* Line 393: x.get("updatedAt") or "", as a number below every timestamp.
SortKey(x) == IF x.updatedAt = <<>> THEN 0 ELSE x.updatedAt[1]

\* x put after the items of the descending list sorted whose key is not below x's.
RECURSIVE InsertDesc(_, _)
InsertDesc(sorted, x) ==
    IF sorted = <<>> THEN <<x>>
    ELSE IF SortKey(Head(sorted)) >= SortKey(x) THEN <<Head(sorted)>> \o InsertDesc(Tail(sorted), x)
    ELSE <<x>> \o sorted

\* sorted(items, key=updatedAt, reverse=True), which keeps the order of equal keys.
RECURSIVE SortDesc(_)
SortDesc(items) ==
    IF items = <<>> THEN <<>>
    ELSE InsertDesc(SortDesc(SubSeq(items, 1, Len(items) - 1)), items[Len(items)])

\* Line 278 to 286: the item of a project entry.
ProjectItem(i) == Item(i.number, i.closedAt, <<i.updatedAt>>, "")

\* Line 171 to 295, for one wanted status: the entries of the project with it.
items_by_status_from_project(issues, status) ==
    LET wanted == SelectSeq(issues, LAMBDA i : i.status = status)
    IN  [k \in 1..Len(wanted) |-> ProjectItem(wanted[k])]

\* Line 315 to 319: the item of an issue found by label.
LabelItem(i) == Item(i.number, i.closedAt, <<i.updatedAt>>, "")

\* Line 297 to 327: the issues carrying the label of the status; issue numbers are
\* distinct, so the de-duplication by number keeps them all.
search_by_labels(issues, status) ==
    LET res == SelectSeq(issues, LAMBDA i : i.status = status)
    IN  [k \in 1..Len(res) |-> LabelItem(res[k])]

\* Line 364 to 374: the item of a recent issue.
StateItem(i) == Item(i.number, i.closedAt, <<i.updatedAt>>, i.state)

\* Line 329 to 379: the issues updated since days before the clock reading of line
\* 338, most recently updated first. The reading is clock seconds and, where frac
\* holds, a fraction of a second more; the timestamps of issues are whole seconds.
get_recent_issues_by_state(issues, days, clock, frac) ==
    LET since == clock - days * SecondsPerDay + (IF frac THEN 1 ELSE 0)
        res == SelectSeq(issues, LAMBDA i : i.updatedAt >= since)
    IN  SortDesc([k \in 1..Len(res) |-> StateItem(res[k])])

\* Line 491 to 500
closed_last_week(it, start, end) ==
    \E v \in {it.mergedAt, it.closedAt} : v # <<>> /\ start <= v[1] /\ v[1] <= end

\* Line 502 to 508
updated_recent(it, days, clock) ==
    it.updatedAt # <<>> /\ DiffDays(clock, it.updatedAt[1]) <= days

\* Line 514: the filter of the plans.
IsPlan(it, clock) == it.state = "open" /\ updated_recent(it, 7, clock)

\* Line 514: the item gets as far as the clock reading of line 510.
ReadsClock(it) == it.state = "open" /\ it.updatedAt # <<>>

\* Line 514: the plans among items, the k-th item judged at the k-th reading.
RECURSIVE PlansOf(_, _)
PlansOf(items, readings) ==
    IF items = <<>> THEN <<>>
    ELSE (IF IsPlan(Head(items), Head(readings)) THEN <<Head(items)>> ELSE <<>>)
         \o PlansOf(Tail(items), Tail(readings))

\* What a reading of dt.datetime.now may give after the reading clock: the same
\* second, the next one, and the first seconds at which a timestamp of stamps is
\* more than days old, or days old. Every later reading sorts the timestamps as
\* one of these does.
ClockReadings(clock, stamps, days) ==
    {clock, clock + 1}
        \cup {r \in {s + days * SecondsPerDay : s \in stamps}
                     \cup {s + days * SecondsPerDay + 1 : s \in stamps} : r > clock}

\* Line 381 to 394: the lines of one section, each item by its number.
Fmt(items) ==
    IF items = <<>> THEN <<[t |-> "_(none)_", number |-> 0]>>
    ELSE LET sorted == SortDesc(items)
         IN  [k \in 1..Len(sorted) |-> [t |-> sorted[k].type, number |-> sorted[k].number]]

\* Line 381 to 409
format_markdown(done, inprog) == [achievements |-> Fmt(done), plans |-> Fmt(inprog)]

(* Inputs of main: the clock and what GitHub answers *)

StatusDone == "Done"

StatusInProgress == "In Progress"

\* main runs on each day of one week, Monday (ordinal 22) onwards.
RunDays == 22..(21 + MaxDays)

\* main runs at the first or at the last second of its day.
RunClocks == {Combine(d, 0, 0, 0) : d \in RunDays} \cup {Combine(d, 23, 59, 59) : d \in RunDays}

\* How long before the run an issue was last updated, in seconds: now, 7 days, a
\* second short of 8 days, 10 days, 14 days, 15 days.
UpdatedAges ==
    {0, 7 * SecondsPerDay, 8 * SecondsPerDay - 1, 10 * SecondsPerDay, 14 * SecondsPerDay,
     15 * SecondsPerDay}

\* An issue of the repository as GitHub holds it: open, or closed four days before
\* the run.
Issue(number, status, age, closed, clock) ==
    [number |-> number, status |-> status,
     state |-> IF closed THEN "closed" ELSE "open",
     closedAt |-> IF closed THEN <<clock - 4 * SecondsPerDay>> ELSE <<>>,
     updatedAt |-> clock - age]

\* Up to MaxIssues issues, numbered from 1.
IssueLists(clock) ==
    UNION {{[k \in 1..n |-> Issue(k, c[k][1], c[k][2], c[k][3], clock)] :
               c \in [1..n -> {StatusDone, StatusInProgress} \X UpdatedAges \X BOOLEAN]} :
           n \in 0..MaxIssues}

\* The project lookup finds no project, raises, or answers; the label variables
\* DONE_LABELS and INPROGRESS_LABELS are both set or both unset.
GitHubs(clock) ==
    {[project |-> p, labels |-> l, issues |-> is] :
        p \in {"none", "raise", "ok"}, l \in BOOLEAN, is \in IssueLists(clock)}

(* main as a state machine *)

InitWeekly ==
    /\ ManifestIdle
    /\ ValidatorIdle
    /\ wpc = "start"
    /\ utc_now \in RunClocks
    /\ github \in GitHubs(utc_now)
    /\ today = 0
    /\ last_start = <<>>
    /\ last_end = <<>>
    /\ try_projects = FALSE
    /\ done_items = <<>>
    /\ inprog_items = <<>>
    /\ md = <<>>
    /\ line = <<>>
    /\ screened = <<>>

\* Line 419 to 452: the time window, and whether a project is to be tried.
Window ==
    /\ wpc = "start"
    /\ today' = DateOf(utc_now)
    /\ last_start' = <<last_week_window(today').start>>
    /\ last_end' = <<last_week_window(today').end>>
    /\ try_projects' = (github.project # "none")
    /\ wpc' = IF try_projects' THEN "project" ELSE "fallback"
    /\ UNCHANGED <<manifest_vars, validator_vars, utc_now, github, done_items, inprog_items,
                   md, line, screened>>

\* Line 454 to 464: the buckets of the project.
FetchProject ==
    /\ wpc = "project"
    /\ github.project = "ok"
    /\ done_items' = items_by_status_from_project(github.issues, StatusDone)
    /\ inprog_items' = items_by_status_from_project(github.issues, StatusInProgress)
    /\ wpc' = "filter"
    /\ UNCHANGED <<manifest_vars, validator_vars, utc_now, github, today, last_start,
                   last_end, try_projects, md, line, screened>>

\* Line 465 to 467: the project lookup raised.
FetchProjectFails ==
    /\ wpc = "project"
    /\ github.project = "raise"
    /\ try_projects' = FALSE
    /\ wpc' = "fallback"
    /\ UNCHANGED <<manifest_vars, validator_vars, utc_now, github, today, last_start,
                   last_end, done_items, inprog_items, md, line, screened>>

\* Line 469 to 481: labels are configured.
FetchLabels ==
    /\ wpc = "fallback"
    /\ github.labels
    /\ done_items' = search_by_labels(github.issues, StatusDone)
    /\ inprog_items' = search_by_labels(github.issues, StatusInProgress)
    /\ wpc' = "filter"
    /\ UNCHANGED <<manifest_vars, validator_vars, utc_now, github, today, last_start,
                   last_end, try_projects, md, line, screened>>

\* Line 482 to 491: no labels, the issues of the last 14 days by state.
FetchByState ==
    /\ wpc = "fallback"
    /\ ~github.labels
    /\ \E frac \in BOOLEAN :
        /\ utc_now' \in ClockReadings(utc_now,
                                      {github.issues[k].updatedAt : k \in DOMAIN github.issues},
                                      14)
        /\ LET all_recent == get_recent_issues_by_state(github.issues, 14, utc_now', frac)
           IN  /\ done_items' = SelectSeq(all_recent, LAMBDA it : it.state = "closed")
               /\ inprog_items' = SelectSeq(all_recent, LAMBDA it : it.state = "open")
    /\ wpc' = "filter"
    /\ UNCHANGED <<manifest_vars, validator_vars, github, today, last_start, last_end,
                   try_projects, md, line, screened>>

\* Line 493 to 519: the two filters and the Markdown. updated_recent reads the clock
\* anew for every item that gets to line 510, each reading no earlier than the one
\* before it.
PrintMarkdown ==
    /\ wpc = "filter"
    /\ LET n == Len(inprog_items)
           stamps == {inprog_items[k].updatedAt[1] :
                         k \in {j \in 1..n : ReadsClock(inprog_items[j])}}
           before(r, k) == IF k = 1 THEN utc_now ELSE r[k - 1]
       IN  \E readings \in [1..n -> ClockReadings(utc_now, stamps, 8)] :
               /\ \A k \in 1..n :
                      IF ReadsClock(inprog_items[k]) THEN readings[k] >= before(readings, k)
                      ELSE readings[k] = before(readings, k)
               /\ utc_now' = IF n = 0 THEN utc_now ELSE readings[n]
               /\ md' = <<format_markdown(
                              SelectSeq(done_items,
                                        LAMBDA it : closed_last_week(it, last_start[1],
                                                                     last_end[1])),
                              PlansOf(inprog_items, readings))>>
    /\ wpc' = "printed"
    /\ UNCHANGED <<manifest_vars, validator_vars, github, today, last_start, last_end,
                   try_projects, done_items, inprog_items, line, screened>>

NextWeekly ==
    \/ Window
    \/ FetchProject
    \/ FetchProjectFails
    \/ FetchLabels
    \/ FetchByState
    \/ PrintMarkdown

SpecWeekly == InitWeekly /\ [][NextWeekly]_vars

----------------------------------------------------------------------------
(* check_conway_syncdb.py: screen_strings *)

\* Line 10 to 18: the loop from position ptr on, having produced out, with the
\* previous character prev and the flag inside.
RECURSIVE ScreenFrom(_, _, _, _, _)
ScreenFrom(text, ptr, prev, inside, out) ==
    IF ptr > Len(text) THEN out
    ELSE LET c == text[ptr]
             now_inside == IF prev = "\"" /\ c # "\"" THEN ~inside ELSE inside
         IN  ScreenFrom(text, ptr + 1, c, now_inside,
                        Append(out, IF c = "," /\ now_inside THEN ";" ELSE c))

\* Line 6 to 20
screen_strings(text) == ScreenFrom(text, 1, " ", FALSE, <<>>)

\* Line 44 and 65, sh.strip().split(','), as the module body applies it to the
\* screened line: the fields after cur, the field being read.
RECURSIVE SplitCommasFrom(_, _)
SplitCommasFrom(cs, cur) ==
    IF cs = <<>> THEN <<cur>>
    ELSE IF cs[1] = "," THEN <<cur>> \o SplitCommasFrom(Tail(cs), <<>>)
    ELSE SplitCommasFrom(Tail(cs), Append(cur, cs[1]))

SplitCommas(text) == SplitCommasFrom(Strip(text, WhitespaceChars), <<>>)

\* The characters of the lines screened: a quote, a comma, a semicolon, a letter, a
\* blank, the end of a line, a vertical tab (0x0B), a separator (0x1C).
LineChars == {"\"", ",", ";", "a", " ", "\n", "", ""}

\* The lines of up to MaxLine characters.
Lines == UNION {[1..n -> LineChars] : n \in 0..MaxLine}

InitScreen ==
    /\ ManifestIdle
    /\ ValidatorIdle
    /\ wpc = "idle"
    /\ utc_now = 0
    /\ github = [project |-> "none", labels |-> FALSE, issues |-> <<>>]
    /\ today = 0
    /\ last_start = <<>>
    /\ last_end = <<>>
    /\ try_projects = FALSE
    /\ done_items = <<>>
    /\ inprog_items = <<>>
    /\ md = <<>>
    /\ line \in Lines
    /\ screened = <<>>

\* Line 43 and 64: sh = screen_strings(s)
Screen ==
    /\ screened = <<>>
    /\ screened' = <<screen_strings(line)>>
    /\ UNCHANGED <<manifest_vars, validator_vars, wpc, utc_now, github, today, last_start,
                   last_end, try_projects, done_items, inprog_items, md, line>>

NextScreen == Screen

SpecScreen == InitScreen /\ [][NextScreen]_vars

----------------------------------------------------------------------------
(* Claims *)

\* The manifest returned, where there is one.
M == manifest[1]

\* The header map of the envelope cbor2.load yields on the file.
RawHdr == file.cbor.v.items[2].m

\* C1: when parse_cbor_header returned a header, the manifest's era, block_height and
\* block_hash are the decoded header's values (the hash hex-encoded), whatever the
\* overrides and the file name are.
C1_HeaderValuesWin ==
    (pc = "done" /\ header # <<>>) =>
        /\ M.era = RawHdr[0]
        /\ M.block_height = RawHdr[1]
        /\ M.block_hash = BytesHex(RawHdr[2].b)

\* C1 witness: a manifest built from a header while all three overrides are given and
\* the file name matches <height>.<hash>.cbor, each with values other than the header's.
C1_Witness ==
    /\ pc = "done"
    /\ header # <<>>
    /\ era_opt.t = "str" /\ Truthy(era_opt) /\ era_opt # RawHdr[0]
    /\ block_height_opt.t = "int" /\ Truthy(block_height_opt) /\ block_height_opt # RawHdr[1]
    /\ Truthy(block_hash_opt) /\ Lower(block_hash_opt.s) # BytesHex(RawHdr[2].b)
    /\ derive_from_filename(file.name)[1].t = "int"
    /\ derive_from_filename(file.name)[1] # RawHdr[1]

\* C2: on the fallback path every supplied block_height_opt (0 included) is the
\* manifest's block_height, and every supplied block_hash_opt (the empty string
\* included) is, lowercased, the manifest's block_hash.
C2_OverrideAlwaysWins ==
    (pc = "done" /\ header = <<>>) =>
        /\ block_height_opt.t = "int" => M.block_height = block_height_opt
        /\ block_hash_opt.t = "str" => M.block_hash = Lower(block_hash_opt.s)

\* The decoded value is one of the header parse failures: not CBOR, not a list, a list
\* shorter than 2, a header that is no map, a required key missing or empty, or a
\* block_hash that is no byte string.
ParseFails(cbor) ==
    \/ cbor.k = "raise"
    \/ cbor.v.t # "list"
    \/ Len(cbor.v.items) < 2
    \/ cbor.v.items[2].t # "dict"
    \/ LET h == cbor.v.items[2].m
       IN  \/ 0 \notin DOMAIN h \/ ~Truthy(h[0])
           \/ 1 \notin DOMAIN h \/ h[1].t = "none"
           \/ 2 \notin DOMAIN h \/ ~Truthy(h[2])
           \/ h[2].t # "bytes"

\* C3: for an existing file of at most 64 MiB whose header fails to parse,
\* generate_manifest does not raise and the manifest it returns is built by the
\* fallback path.
C3_ParseFailureIsNoError ==
    (file.exists /\ RLen(file.data) <= SizeCeiling /\ ParseFails(file.cbor)) =>
        /\ pc # "raised"
        /\ pc = "done" => path = "fallback"

\* The text is an unsigned decimal integer: digits and nothing else.
UnsignedDecimal(cs) == cs # <<>> /\ \A k \in 1..Len(cs) : IsIn(DigitChars, cs[k])

\* The name is <n>.<hex>.cbor: three components, an unsigned integer, a non-empty
\* hex string, the extension cbor.
NameMatches(name) ==
    LET parts == Split(name)
    IN  /\ Len(parts) = 3
        /\ UnsignedDecimal(parts[1])
        /\ parts[2] # <<>> /\ AllHex(parts[2])
        /\ parts[3] = Cbor

\* C4: with no parseable header, a name <n>.<hex>.cbor (n = 0 included) and no
\* overrides, the manifest has block_height n, block_hash hex lowercased, era
\* 'conway' and governance_section_present false.
C4_FilenameDerivation ==
    (/\ pc = "done" /\ header = <<>>
     /\ NameMatches(file.name)
     /\ era_opt = PyNone /\ block_hash_opt = PyNone /\ block_height_opt = PyNone) =>
        /\ M.block_height = PyInt(DigitsValue(Split(file.name)[1], 0))
        /\ M.block_hash = Lower(Split(file.name)[2])
        /\ M.era = PyStr(Conway)
        /\ M.governance_section_present = FALSE

\* The name has exactly three dot-separated components, the first an unsigned
\* decimal integer and the second a non-empty hex string.
NameShaped(name) ==
    LET parts == Split(name)
    IN  /\ Len(parts) = 3
        /\ UnsignedDecimal(parts[1])
        /\ parts[2] # <<>> /\ AllHex(parts[2])

\* C5: derive_from_filename returns (None, None) for every name that is not of the
\* shape <unsigned-integer>.<hex-string>.<extension>, and never one value without
\* the other.
C5_DeriveOnlyForShape ==
    pc = "derived" =>
        /\ ~NameShaped(file.name) => from_name = NoneNone
        /\ (from_name[1] = PyNone) <=> (from_name[2] = PyNone)

\* The count the header declares under key k: 0 when the key is absent or null.
DeclaredCount(k) ==
    IF k \in DOMAIN RawHdr /\ RawHdr[k].t = "int" THEN RawHdr[k].i ELSE 0

\* C6: on the header path governance_section_present is true exactly when the
\* declared governance-action count (key 4) or the declared parameter-set count
\* (key 5) is above 0; key 3 and the records play no part.
C6_GovernanceFromCounts ==
    (pc = "done" /\ header # <<>>) =>
        (M.governance_section_present <=> (DeclaredCount(4) > 0 \/ DeclaredCount(5) > 0))

\* C6 witness: a manifest from a header with no key 3, no governance actions and a
\* positive parameter-set count, reporting a governance section.
C6_Witness ==
    /\ pc = "done"
    /\ header # <<>>
    /\ 3 \notin DOMAIN RawHdr
    /\ DeclaredCount(4) = 0
    /\ DeclaredCount(5) > 0
    /\ M.governance_section_present

\* C7: a manifest built with no header has governance_section_present false, and a
\* manifest with governance_section_present true was built from a decoded header.
C7_FallbackHasNoGovernance ==
    pc = "done" =>
        /\ header = <<>> => ~M.governance_section_present
        /\ M.governance_section_present => (header # <<>> /\ path = "header")

\* C7 witness: a fallback manifest for a file that holds an envelope declaring
\* governance actions, with a block hash known from the override and from the name.
C7_Witness ==
    /\ pc = "done"
    /\ header = <<>>
    /\ file.cbor.k = "value"
    /\ LoadedHeader(file.cbor).k = "dict"
    /\ DeclaredCount(4) > 0
    /\ Truthy(block_hash_opt)
    /\ ~M.governance_section_present

\* C8: a file larger than 64 MiB is never opened for decoding and its manifest is
\* built by the fallback path; a file of at most 64 MiB is opened for decoding once
\* parse_cbor_header has run.
C8_LargeInputRouting ==
    /\ RLen(file.data) > SizeCeiling =>
        (decode_opens = 0 /\ header = <<>> /\ path # "header")
    /\ (file.exists /\ pc \notin {"call", "parse"} /\ RLen(file.data) <= SizeCeiling) =>
        decode_opens = 1

\* C8 witness: a fallback manifest for a file of more than 64 MiB that starts with a
\* well-formed envelope and header.
C8_Witness ==
    /\ pc = "done"
    /\ RLen(file.data) > SizeCeiling
    /\ LoadedHeader(file.cbor).k = "dict"
    /\ path = "fallback"
    /\ decode_opens = 0

\* C9 as stated: for every value passed as chunk_size the call ends with the bytes
\* fed to the hasher being the file's contents, so the digest is the SHA-256 of the
\* whole file.
C9_AnyChunkSize ==
    pc \in {"sha_done", "raised"} =>
        (pc = "sha_done" /\ hasher = file.data /\ digest = <<Sha256Hex(file.data)>>)

\* C9 amended: for every positive chunk_size, and for -1, the call ends with the
\* bytes fed to the hasher, in read order, being the file's contents exactly once,
\* and the digest is the SHA-256 of the whole file.
C9_PositiveChunkSize ==
    (pc \in {"sha_done", "raised"} /\ (chunk_size >= 1 \/ chunk_size = -1)) =>
        (pc = "sha_done" /\ hasher = file.data /\ digest = <<Sha256Hex(file.data)>>)

\* C9 witness: a file of at least two different bytes hashed one byte at a time.
C9_Witness ==
    /\ pc = "sha_done"
    /\ chunk_size = 1
    /\ Len(file.data) >= 2
    /\ hasher = file.data

\* C10: every manifest carries the SHA-256 of all raw bytes of the file and the
\* file's length, on the header path and on the fallback path alike.
C10_DigestAndSizeOfWholeFile ==
    pc = "done" =>
        /\ M.sha256 = Sha256Hex(file.data)
        /\ M.size_bytes = RLen(file.data)

\* C10 witness: a header-path manifest for a file of exactly 64 MiB, whose bytes past
\* the envelope are hashed and counted too.
C10_Witness ==
    /\ pc = "done"
    /\ path = "header"
    /\ RLen(file.data) = SizeCeiling
    /\ M.size_bytes = SizeCeiling
    /\ M.sha256.sha256_of = file.data

\* C11: every manifest built has exactly the fields magic, format_version, era,
\* block_height, block_hash, sha256, created_at, size_bytes and
\* governance_section_present, no other key and none missing, and its sha256 is a
\* SHA-256 hex digest (64 lowercase hex characters by hashlib's hexdigest), the one
\* computed for the file.
C11_SpecFieldNames ==
    pc = "done" =>
        /\ DOMAIN M = {"magic", "format_version", "era", "block_height", "block_hash",
                       "sha256", "created_at", "size_bytes", "governance_section_present"}
        /\ M.sha256 = Sha256Hex(file.data)

\* Lines 143-153 as written: the manifest has the keys magic, version, era,
\* block_height, block_hash, sha256, created_at, size_bytes and
\* governance_section_present, and its sha256 is the hex digest computed for the file.
ManifestKeysAsWritten ==
    pc = "done" =>
        /\ DOMAIN M = {"magic", "version", "era", "block_height", "block_hash",
                       "sha256", "created_at", "size_bytes", "governance_section_present"}
        /\ M.magic = "CARDANO_SNAPSHOT"
        /\ M.version = "1.0.0"
        /\ M.sha256 = Sha256Hex(file.data)

\* The string is made of the characters 0-9 and a-f only.
IsLowerHex(cs) == \A k \in 1..Len(cs) : IsIn(HexDigits, cs[k])

\* C12: the block_hash of every manifest is a lowercase hexadecimal string, on the
\* header path and on the fallback path with an override, a filename-derived hash
\* or neither.
C12_BlockHashLowerHex ==
    pc = "done" => IsLowerHex(M.block_hash)

\* The value cbor2.load yields is a list of n elements.
LoadedListOf(n) ==
    file.cbor.k = "value" /\ file.cbor.v.t = "list" /\ Len(file.cbor.v.items) = n

\* C13: a top-level list of 2, or of 4 or more, elements is a decode failure:
\* parse_cbor_header returns no header and the manifest is built by the fallback path.
C13_EnvelopeExactlyThree ==
    (\E n \in {2, 4, 5} : LoadedListOf(n)) => (header = <<>> /\ path # "header")

\* C14: an envelope whose version element is not the integer 1 is a decode failure:
\* no header is returned and its values never reach the manifest.
C14_VersionMustBeOne ==
    (/\ file.cbor.k = "value" /\ file.cbor.v.t = "list" /\ Len(file.cbor.v.items) >= 1
     /\ file.cbor.v.items[1] # PyInt(1)) =>
        (header = <<>> /\ path # "header")

\* C15: a header is accepted only if era is a non-empty string, block_height an
\* unsigned integer and block_hash a byte string of exactly 32 bytes.
C15_RequiredFieldsTyped ==
    header # <<>> =>
        /\ 0 \in DOMAIN RawHdr /\ RawHdr[0].t = "str" /\ RawHdr[0].s # <<>>
        /\ 1 \in DOMAIN RawHdr /\ RawHdr[1].t = "int" /\ RawHdr[1].i >= 0
        /\ 2 \in DOMAIN RawHdr /\ RawHdr[2].t = "bytes" /\ Len(RawHdr[2].b) = 32

\* The header parse_cbor_header returns for a file with this file's version and
\* header and an empty record sequence.
SameHeaderNoRecords ==
    LoadedHeader(Loaded("list", <<file.cbor.v.items[1], file.cbor.v.items[2], PyList(0)>>))

\* C16: a file of at most 64 MiB gets the era, block_height, block_hash and
\* governance_section_present that a file with the same version and header gets,
\* whatever its record sequence is, decodable or not.
C16_RecordsDoNotMatter ==
    (/\ pc = "done"
     /\ RLen(file.data) <= SizeCeiling
     /\ file.cbor.v.t = "list" /\ Len(file.cbor.v.items) >= 2
     /\ SameHeaderNoRecords.k = "dict") =>
        /\ M.era = SameHeaderNoRecords.d[1].era
        /\ M.block_height = SameHeaderNoRecords.d[1].block_height
        /\ M.block_hash = SameHeaderNoRecords.d[1].block_hash
        /\ M.governance_section_present = SameHeaderNoRecords.d[1].governance_section_present

\* C17: at most one handle on the snapshot is open at any moment, one is open only
\* between an open and the end of its `with` block, and none is open once
\* generate_manifest has returned or raised, I/O errors included.
C17_HandlesReleased ==
    /\ handles \in {0, 1}
    /\ handles = 1 => pc \in {"load", "sha_read"}
    /\ pc \in {"done", "raised", "branch", "sha_open", "sha_done"} => handles = 0

\* C17 witness: a read fails in compute_sha256 after a chunk was hashed, following a
\* decode that failed and fell back; the call has raised and no handle is open.
C17_Witness ==
    /\ pc = "raised"
    /\ exc = "OSError"
    /\ hasher # <<>>
    /\ decode_opens = 1
    /\ path = "fallback"
    /\ handles = 0

\* The validator has returned its report.
Validated == verdict \in {"ok", "failed"}

\* The number of records of the given kind in rs.
RECURSIVE CountKind(_, _)
CountKind(rs, kind) ==
    IF rs = <<>> THEN 0
    ELSE (IF KindOf(Head(rs).tag) = kind THEN 1 ELSE 0) + CountKind(Tail(rs), kind)

\* The sum of the payloads of the delta records in rs.
RECURSIVE SumDeltas(_)
SumDeltas(rs) ==
    IF rs = <<>> THEN 0
    ELSE (IF KindOf(Head(rs).tag) = "GovernanceActionsDelta" THEN Head(rs).d ELSE 0)
         + SumDeltas(Tail(rs))

\* The records rs hold what the header hdr declares, and end with the one
\* EndOfSnapshot.
WellFormed(hdr, rs) ==
    /\ CountKind(rs, "Utxo") = hdr[3].i
    /\ SumDeltas(rs) = hdr[4].i
    /\ CountKind(rs, "ParameterSet") = hdr[5].i
    /\ CountKind(rs, "EndOfSnapshot") = 1
    /\ rs[Len(rs)] = RecEnd

WellFormedEnvelope == WellFormed(envelope.header, envelope.records)

\* C18: a validation of an envelope whose era is allowed and whose records hold
\* exactly the declared number of Utxo records, deltas summing to the declared
\* governance count, the declared number of ParameterSet records, any TipUpdate
\* records, in any order, and one EndOfSnapshot as the last record, succeeds with an
\* empty report.
C18_CountInvariant ==
    (Validated /\ envelope.header[0].s \in allow_list /\ WellFormedEnvelope) =>
        (verdict = "ok" /\ report = {})

\* C18 witness: valid_snapshot.cbor (two Utxo, a TipUpdate between them and a delta
\* of 3, one ParameterSet, the EndOfSnapshot) has been validated and accepted.
C18_Witness ==
    /\ verdict = "ok"
    /\ envelope = ValidSnapshot
    /\ cursor = Len(envelope.records)
    /\ utxo_seen = 2 /\ gov_delta_sum = 3 /\ param_sets_seen = 1 /\ end_seen

\* C19: a validation of an allowed-era envelope whose records hold no EndOfSnapshot
\* fails with MissingEndMarker and nothing else, whether or not the counters match
\* the declared counts.
C19_MissingTerminal ==
    (/\ Validated
     /\ envelope.header[0].s \in allow_list
     /\ CountKind(envelope.records, "EndOfSnapshot") = 0) =>
        (verdict = "failed" /\ report = {Diag("MissingEndMarker")})

\* C19 witness: missing_end.cbor (one Utxo declared, one present, no EndOfSnapshot)
\* has been read to the end of its stream with its counters matching, and rejected.
C19_Witness ==
    /\ verdict = "failed"
    /\ envelope = MissingEnd
    /\ cursor = Len(envelope.records)
    /\ ~end_seen
    /\ Mismatches(envelope.header, utxo_seen, gov_delta_sum, param_sets_seen) = {}

\* The envelope's records are a well-formed sequence with one more EndOfSnapshot
\* appended.
SecondEndAppended ==
    /\ Len(envelope.records) >= 2
    /\ envelope.records[Len(envelope.records)] = RecEnd
    /\ WellFormed(envelope.header, SubSeq(envelope.records, 1, Len(envelope.records) - 1))

\* C20: the step that reads an EndOfSnapshot while end_seen is true ends the
\* validation as failed with DuplicateEndMarker alone, having consumed that record
\* only; no record is consumed once the validation has ended; and an allowed-era
\* envelope made of a well-formed sequence and a second EndOfSnapshot is rejected with
\* DuplicateEndMarker.
C20_DuplicateTerminal ==
    /\ [][/\ (Pulls({"EndOfSnapshot"}) /\ end_seen) =>
               /\ verdict' = "failed"
               /\ report' = {Diag("DuplicateEndMarker")}
               /\ cursor' = cursor + 1
          /\ Validated => (cursor' = cursor /\ report' = report)]_vars
    /\ []((Validated /\ envelope.header[0].s \in allow_list /\ SecondEndAppended) =>
             (verdict = "failed" /\ report = {Diag("DuplicateEndMarker")}))

\* C20 witness: duplicate_end.cbor (one Utxo, EndOfSnapshot, EndOfSnapshot) has been
\* rejected at its third record with DuplicateEndMarker.
C20_Witness ==
    /\ verdict = "failed"
    /\ envelope = DuplicateEnd
    /\ end_seen
    /\ cursor = 3
    /\ report = {Diag("DuplicateEndMarker")}

\* A duplicate EndOfSnapshot has been rejected with a later record left unread.
DuplicateBeforeLaterRecord ==
    /\ verdict = "failed"
    /\ report = {Diag("DuplicateEndMarker")}
    /\ cursor < Len(envelope.records)

\* The mismatches between what the header declares and what the records hold.
ExpectedMismatches ==
    {m \in {CountMismatch("Utxo", envelope.header[3].i,
                          CountKind(envelope.records, "Utxo")),
            CountMismatch("GovernanceActionsDelta", envelope.header[4].i,
                          SumDeltas(envelope.records)),
            CountMismatch("ParameterSet", envelope.header[5].i,
                          CountKind(envelope.records, "ParameterSet"))} :
        m.declared # m.actual}

\* The envelope's records end with their one EndOfSnapshot.
OneTerminal ==
    /\ CountKind(envelope.records, "EndOfSnapshot") = 1
    /\ envelope.records[Len(envelope.records)] = RecEnd

\* C21: a validation of an allowed-era envelope whose records end with their one
\* EndOfSnapshot reports one CountMismatch(kind, declared, actual) for every kind
\* whose count differs from the declared one and nothing else, and fails exactly when
\* there is one.
C21_AllMismatchesReported ==
    (Validated /\ envelope.header[0].s \in allow_list /\ OneTerminal) =>
        /\ report = ExpectedMismatches
        /\ verdict = "failed" <=> ExpectedMismatches # {}

\* C21 witness: count_mismatch.cbor (five Utxo declared, one present, the
\* EndOfSnapshot) has been rejected with CountMismatch(Utxo, 5, 1).
C21_Witness ==
    /\ verdict = "failed"
    /\ envelope = CountMismatchFixture
    /\ end_seen
    /\ report = {CountMismatch("Utxo", 5, 1)}

\* A validation has reported a mismatch for each of the three kinds at once.
ThreeMismatchesReported ==
    /\ verdict = "failed"
    /\ Cardinality(report) = 3
    /\ \A m \in report : m.d = "CountMismatch"

\* C22: a validation of an envelope whose era is not in the allow-list pulls no
\* record and changes no counter, and ends failed with UnsupportedEra alone, whatever
\* the records are.
C22_EraRejectedFirst ==
    (verdict # "idle" /\ envelope.header[0].s \notin allow_list) =>
        /\ cursor = 0
        /\ utxo_seen = 0 /\ gov_delta_sum = 0 /\ param_sets_seen = 0 /\ ~end_seen
        /\ verdict \in {"start", "failed"}
        /\ verdict = "failed" => report = {Diag("UnsupportedEra")}

\* C22 witness: wrong_era.cbor (era byron) has been rejected under the allow-list
\* {conway} with its EndOfSnapshot record unread.
C22_Witness ==
    /\ verdict = "failed"
    /\ envelope = WrongEra
    /\ allow_list = {Conway}
    /\ cursor = 0
    /\ Len(envelope.records) = 1
    /\ report = {Diag("UnsupportedEra")}

\* The Monday of the week of day d: the one day of d-6..d that is a Monday.
MondayOf(d) == CHOOSE x \in (d - 6)..d : Weekday(x) = 0

\* C23: the window main computed for today starts at 00:00:00 of the Monday seven
\* days before the Monday of today's week and ends at 23:59:59 of the Sunday just
\* before that Monday, so it spans seven days and holds no instant of the current week.
C23_PreviousWeekWindow ==
    last_start # <<>> =>
        /\ last_start[1] = Combine(MondayOf(today) - 7, 0, 0, 0)
        /\ last_end[1] = Combine(MondayOf(today) - 1, 23, 59, 59)
        /\ last_end[1] - last_start[1] + 1 = 7 * SecondsPerDay
        /\ last_end[1] < Combine(MondayOf(today), 0, 0, 0)

\* The path main took to its items.
DataSource ==
    IF try_projects THEN "project" ELSE IF github.labels THEN "labels" ELSE "state"

\* The numbers of the items listed in the Plans section.
PlanNumbers == {md[1].plans[k].number : k \in 1..Len(md[1].plans)} \ {0}

\* C24: the Plans section main printed from the Projects v2 path or from the label
\* path lists exactly the In Progress items updated within the last 14 days.
C24_PlansWithin14Days ==
    (wpc = "printed" /\ DataSource \in {"project", "labels"}) =>
        PlanNumbers = {inprog_items[k].number : k \in
                          {j \in 1..Len(inprog_items) :
                              updated_recent(inprog_items[j], 14, utc_now)}}

\* C25: every manifest built on the fallback path has an integer block_height above
\* 0, whatever the override and the file name are.
C25_FallbackHeightPositive ==
    (pc = "done" /\ path = "fallback") =>
        (M.block_height.t = "int" /\ M.block_height.i > 0)

\* Position k of text lies inside a double-quoted segment: an odd number of quotes
\* precedes it.
InQuotes(text, k) == Cardinality({j \in 1..(k - 1) : text[j] = "\""}) % 2 = 1

\* The commas of text that separate its CSV fields.
FieldCommas(text) == {k \in 1..Len(text) : text[k] = "," /\ ~InQuotes(text, k)}

\* C26: the string screen_strings returns has the length of its argument and its
\* characters, but for a ';' at each comma inside a double-quoted segment; so it
\* splits on ',' into as many fields as the argument has.
C26_OnlyQuotedCommasScreened ==
    screened # <<>> =>
        /\ Len(screened[1]) = Len(line)
        /\ \A k \in 1..Len(line) :
               screened[1][k] = IF line[k] = "," /\ InQuotes(line, k) THEN ";" ELSE line[k]
        /\ Len(SplitCommas(screened[1])) = Cardinality(FieldCommas(line)) + 1

\* The length and the characters other than commas are kept by screen_strings.
ScreenKeepsOtherCharacters ==
    screened # <<>> =>
        /\ Len(screened[1]) = Len(line)
        /\ \A k \in 1..Len(line) : line[k] # "," => screened[1][k] = line[k]

====
